---- MODULE Spec2Model ----
(***************************************************************************)
(* MessageBox overlay lookup service (backend/src/lookup-services/         *)
(* MessageBoxLookupService.ts, here src/backend/mod.ts).                   *)
(*                                                                         *)
(* The state is the advertisement store the service owns (the overlay_ads  *)
(* collection behind MessageBoxStorage).  One action per handler of the    *)
(* LookupService interface: outputAdded, outputSpent, outputDeleted and    *)
(* lookup.  Each handler holds a single await on one storage call, so a    *)
(* handler is one atomic step on the store.                                *)
(*                                                                         *)
(* MessageBoxStorage is imported by the service but its file is not part   *)
(* of the sources at hand; storeRecord, deleteRecord and                   *)
(* findHostsForIdentity follow section 4.2 of the specification.           *)
(***************************************************************************)
EXTENDS Integers, Sequences, FiniteSets, TLC

VARIABLES
    store,        \* MessageBoxStorage: output reference -> {identityKey, host}
    before,       \* history: the store when the last handler was called
    last,         \* history: the last handler call, its inputs and its outcome
    liveOutputs,  \* history: valid advertisement outputs added and not yet spent or deleted
    removed,      \* history: indexed outputs that an outputSpent or outputDeleted removed
    inflight,     \* handler calls suspended at their await of the storage
    batch,        \* history: the calls made since the service was last quiescent
    base,         \* history: the store when the service was last quiescent
    lost,         \* handler calls a crash interrupted, not yet delivered again
    redelivered   \* history: the calls of the batch delivered again after a crash

vars == <<store, before, last, liveOutputs, removed, inflight, batch, base, lost,
          redelivered>>

\* The variables the handlers' sequential runs leave alone.
async == <<inflight, batch, base, lost, redelivered>>

(***************************************************************************)
(* Bounds of the model.                                                    *)
(***************************************************************************)
MaxOutputIndex == 1

\* Output references: outputs 0..MaxOutputIndex of tx1 and output 0 of tx2.
Refs == {<<"tx1", i>> : i \in 0..MaxOutputIndex} \cup {<<"tx2", 0>>}

Topics == {"tm_messagebox", "tm_other"}
Services == {"ls_messagebox", "ls_other"}

(***************************************************************************)
(* Byte strings carried by the PushDrop fields of the modelled scripts.    *)
(***************************************************************************)
Key1Bytes == <<2, 171>>
Key2Bytes == <<3, 205>>
HostABytes == <<97>>
HostBBytes == <<98>>
NonUtf8HostBytes == <<98, 255>>
TimestampBytes == <<49>>
NonceBytes == <<110>>

(***************************************************************************)
(* Utils.toHex: two lowercase hex digits per byte.                         *)
(***************************************************************************)
HexDigit == <<"0", "1", "2", "3", "4", "5", "6", "7",
              "8", "9", "a", "b", "c", "d", "e", "f">>

RECURSIVE toHex(_)
toHex(bytes) ==
    IF bytes = <<>> THEN ""
    ELSE HexDigit[(Head(bytes) \div 16) + 1] \o HexDigit[(Head(bytes) % 16) + 1]
         \o toHex(Tail(bytes))

(***************************************************************************)
(* Utils.toUTF8: one character per ASCII byte; a byte that neither is      *)
(* ASCII nor leads a multi-byte sequence (0x80..0xbf, 0xf8..0xff) adds     *)
(* nothing to the result.  It does not throw on such bytes.                *)
(***************************************************************************)
AsciiLower == <<"a", "b", "c", "d", "e", "f", "g", "h", "i", "j", "k", "l", "m",
                "n", "o", "p", "q", "r", "s", "t", "u", "v", "w", "x", "y", "z">>

Utf8Char(byte) ==
    IF byte >= 97 /\ byte <= 122 THEN AsciiLower[byte - 96]
    ELSE IF byte >= 48 /\ byte <= 57 THEN HexDigit[byte - 47]
    ELSE ""

RECURSIVE toUTF8(_)
toUTF8(bytes) ==
    IF bytes = <<>> THEN ""
    ELSE Utf8Char(Head(bytes)) \o toUTF8(Tail(bytes))

(***************************************************************************)
(* Locking scripts.  PushDrop.decode either throws (the chunks are not a   *)
(* PushDrop template) or returns the pushed fields in order.               *)
(***************************************************************************)
Undecodable == [decodable |-> FALSE, fields |-> <<>>]

PushDropScript(fields) == [decodable |-> TRUE, fields |-> fields]

RECURSIVE ByteSum(_)
ByteSum(bytes) == IF bytes = <<>> THEN 0 ELSE Head(bytes) + ByteSum(Tail(bytes))

\* The signature of identityKey's holder over (host, timestamp, nonce); an
\* abstraction of the ECDSA signature, injective enough for the fields used.
SignatureOf(identityKey, host, timestamp, nonce) ==
    <<(ByteSum(identityKey) + 3 * ByteSum(host) + 5 * ByteSum(timestamp)
       + 7 * ByteSum(nonce)) % 256>>

ForgedSignature == <<0>>

\* The documented advertisement: [identityKey, host, timestamp, nonce, signature].
SignedAdvertisement(identityKey, host) ==
    PushDropScript(<<identityKey, host, TimestampBytes, NonceBytes,
                     SignatureOf(identityKey, host, TimestampBytes, NonceBytes)>>)

ValidAdvertisement(script) ==
    /\ script.decodable
    /\ Len(script.fields) = 5
    /\ script.fields[5] = SignatureOf(script.fields[1], script.fields[2],
                                      script.fields[3], script.fields[4])

Scripts ==
    { SignedAdvertisement(Key1Bytes, HostABytes),
      SignedAdvertisement(Key1Bytes, HostBBytes),
      SignedAdvertisement(Key2Bytes, HostABytes),
      Undecodable,
      PushDropScript(<<Key1Bytes>>),
      PushDropScript(<<Key1Bytes, HostABytes>>),
      PushDropScript(<<Key2Bytes, HostABytes, TimestampBytes>>),
      PushDropScript(<<Key2Bytes, HostABytes, TimestampBytes, NonceBytes,
                       ForgedSignature>>),
      SignedAdvertisement(Key1Bytes, NonUtf8HostBytes) }

(***************************************************************************)
(* MessageBoxStorage (specification, section 4.2).  The primary key is     *)
(* the output reference (txid, outputIndex).                               *)
(***************************************************************************)
storeRecord(s, identityKey, host, txid, outputIndex) ==
    (<<txid, outputIndex>> :> [identityKey |-> identityKey, host |-> host]) @@ s

deleteRecord(s, txid, outputIndex) ==
    [r \in DOMAIN s \ {<<txid, outputIndex>>} |-> s[r]]

findHostsForIdentity(s, identityKey) ==
    {s[r].host : r \in {x \in DOMAIN s : s[x].identityKey = identityKey}}

(***************************************************************************)
(* What one handler call does: the store it leaves, whether its promise    *)
(* resolves or rejects (and with which error), the error its catch block   *)
(* logged, the storage calls it issued, and the value it resolved with.    *)
(* storageFails is the environment: the storage call of this handler, if   *)
(* it issues one, rejects with a StoreError and changes nothing.           *)
(***************************************************************************)
Effect(s, outcome, error, caught, calls, result) ==
    [store |-> s, outcome |-> outcome, error |-> error, caught |-> caught,
     calls |-> calls, result |-> result]

\* outputAdded merging the host into the record the reference already has.
OutputAddedMergesHost(s, txid, outputIndex, outputScript, topic, storageFails) ==
    IF topic # "tm_messagebox"
    THEN Effect(s, "resolved", "none", "none", <<>>, {})
    ELSE IF ~outputScript.decodable \/ Len(outputScript.fields) < 2
    THEN Effect(s, "resolved", "none", "DecodeError", <<>>, {})
    ELSE LET ref == <<txid, outputIndex>>
             host == toUTF8(outputScript.fields[2])
             merged == IF ref \in DOMAIN s THEN s[ref].host \o host ELSE host
         IN IF storageFails
            THEN Effect(s, "resolved", "none", "StoreError", <<"storeRecord">>, {})
            ELSE Effect(storeRecord(s, toHex(outputScript.fields[1]), merged,
                                    txid, outputIndex),
                        "resolved", "none", "none", <<"storeRecord">>, {})

\* outputAdded writing a record without host before it decodes the host.
OutputAddedWritesPlaceholder(s, txid, outputIndex, outputScript, topic) ==
    IF topic = "tm_messagebox" /\ outputScript.decodable
       /\ Len(outputScript.fields) >= 2
    THEN storeRecord(s, toHex(outputScript.fields[1]), "", txid, outputIndex)
    ELSE s

\* outputAdded up to its await, lines 58-69: the topic test, PushDrop.decode
\* and the two conversions touch no storage.
OutputAddedBeforeAwait(s, txid, outputIndex, outputScript, topic) == s

\* outputAdded replacing the records of the output's transaction.
OutputAddedPerTransaction(s, txid, outputIndex, outputScript, topic, storageFails) ==
    IF topic # "tm_messagebox"
    THEN Effect(s, "resolved", "none", "none", <<>>, {})
    ELSE IF ~outputScript.decodable \/ Len(outputScript.fields) < 2
    THEN Effect(s, "resolved", "none", "DecodeError", <<>>, {})
    ELSE IF storageFails
    THEN Effect(s, "resolved", "none", "StoreError", <<"storeRecord">>, {})
    ELSE Effect(storeRecord([r \in {x \in DOMAIN s : x[1] # txid} |-> s[r]],
                            toHex(outputScript.fields[1]),
                            toUTF8(outputScript.fields[2]), txid, outputIndex),
                "resolved", "none", "none", <<"storeRecord">>, {})

\* outputAdded letting the decode error escape instead of logging it.
OutputAddedRethrows(s, txid, outputIndex, outputScript, topic, storageFails) ==
    IF topic # "tm_messagebox"
    THEN Effect(s, "resolved", "none", "none", <<>>, {})
    ELSE IF ~outputScript.decodable \/ Len(outputScript.fields) < 2
    THEN Effect(s, "rejected", "DecodeError", "none", <<>>, {})
    ELSE IF storageFails
    THEN Effect(s, "resolved", "none", "StoreError", <<"storeRecord">>, {})
    ELSE Effect(storeRecord(s, toHex(outputScript.fields[1]),
                            toUTF8(outputScript.fields[2]), txid, outputIndex),
                "resolved", "none", "none", <<"storeRecord">>, {})

\* outputAdded, lines 57-80.
OutputAddedEffect(s, txid, outputIndex, outputScript, topic, storageFails) ==
    IF topic # "tm_messagebox"
    THEN Effect(s, "resolved", "none", "none", <<>>, {})
    ELSE IF ~outputScript.decodable
    THEN \* PushDrop.decode throws; caught and logged
         Effect(s, "resolved", "none", "DecodeError", <<>>, {})
    ELSE IF Len(outputScript.fields) < 2
    THEN \* identityKeyBuf or hostBuf is undefined: toHex/toUTF8 throws
         Effect(s, "resolved", "none", "DecodeError", <<>>, {})
    ELSE LET identityKeyBuf == outputScript.fields[1]
             hostBuf == outputScript.fields[2]
             ad == [identityKey |-> toHex(identityKeyBuf), host |-> toUTF8(hostBuf)]
         IN IF storageFails
            THEN \* the rejection of storeRecord is caught and logged too
                 Effect(s, "resolved", "none", "StoreError", <<"storeRecord">>, {})
            ELSE Effect(storeRecord(s, ad.identityKey, ad.host, txid, outputIndex),
                        "resolved", "none", "none", <<"storeRecord">>, {})

\* outputSpent comparing the topic with the lookup service's name.
OutputSpentWrongTopic(s, txid, outputIndex, topic, storageFails) ==
    IF topic = "ls_messagebox"
    THEN IF storageFails
         THEN Effect(s, "rejected", "StoreError", "none", <<"deleteRecord">>, {})
         ELSE Effect(deleteRecord(s, txid, outputIndex),
                     "resolved", "none", "none", <<"deleteRecord">>, {})
    ELSE Effect(s, "resolved", "none", "none", <<>>, {})

\* outputSpent failing when there is no record to remove.
OutputSpentRejectsUnindexed(s, txid, outputIndex, topic, storageFails) ==
    IF topic = "tm_messagebox"
    THEN IF storageFails \/ <<txid, outputIndex>> \notin DOMAIN s
         THEN Effect(s, "rejected", "StoreError", "none", <<"deleteRecord">>, {})
         ELSE Effect(deleteRecord(s, txid, outputIndex),
                     "resolved", "none", "none", <<"deleteRecord">>, {})
    ELSE Effect(s, "resolved", "none", "none", <<>>, {})

\* outputSpent removing every output of the transaction.
OutputSpentWholeTransaction(s, txid, outputIndex, topic, storageFails) ==
    IF topic = "tm_messagebox"
    THEN IF storageFails
         THEN Effect(s, "rejected", "StoreError", "none", <<"deleteRecord">>, {})
         ELSE Effect([r \in {x \in DOMAIN s : x[1] # txid} |-> s[r]],
                     "resolved", "none", "none", <<"deleteRecord">>, {})
    ELSE Effect(s, "resolved", "none", "none", <<>>, {})

\* outputSpent, lines 89-97.
OutputSpentEffect(s, txid, outputIndex, topic, storageFails) ==
    IF topic = "tm_messagebox"
    THEN IF storageFails
         THEN Effect(s, "rejected", "StoreError", "none", <<"deleteRecord">>, {})
         ELSE Effect(deleteRecord(s, txid, outputIndex),
                     "resolved", "none", "none", <<"deleteRecord">>, {})
    ELSE Effect(s, "resolved", "none", "none", <<>>, {})

\* outputDeleted without its topic filter.
OutputDeletedAnyTopic(s, txid, outputIndex, topic, storageFails) ==
    IF storageFails
    THEN Effect(s, "rejected", "StoreError", "none", <<"deleteRecord">>, {})
    ELSE Effect(deleteRecord(s, txid, outputIndex),
                "resolved", "none", "none", <<"deleteRecord">>, {})

\* outputDeleted, lines 106-114.
OutputDeletedEffect(s, txid, outputIndex, topic, storageFails) ==
    IF topic = "tm_messagebox"
    THEN IF storageFails
         THEN Effect(s, "rejected", "StoreError", "none", <<"deleteRecord">>, {})
         ELSE Effect(deleteRecord(s, txid, outputIndex),
                     "resolved", "none", "none", <<"deleteRecord">>, {})
    ELSE Effect(s, "resolved", "none", "none", <<>>, {})

(***************************************************************************)
(* Lookup questions.  query may be absent, and a present query may lack    *)
(* identityKey; `!query?.identityKey` is also true of the empty string.    *)
(***************************************************************************)
Question(service, hasQuery, hasIdentityKey, identityKey) ==
    [service |-> service, hasQuery |-> hasQuery,
     hasIdentityKey |-> hasIdentityKey, identityKey |-> identityKey]

\* A present identityKey that is no hex-encoded public key.
InvalidIdentityKeys == {"not-a-key"}

IdentityKeys ==
    {"", toHex(Key1Bytes), toHex(Key2Bytes), "02AB"} \cup InvalidIdentityKeys

Questions ==
    {Question(sv, FALSE, FALSE, "") : sv \in Services}
    \cup {Question(sv, TRUE, FALSE, "") : sv \in Services}
    \cup {Question(sv, TRUE, TRUE, k) : sv \in Services, k \in IdentityKeys}

NoIdentityKey(question) ==
    \/ ~question.hasQuery
    \/ ~question.hasIdentityKey
    \/ question.identityKey = ""

\* lookup handing the query object's wrong member to the storage.
LookupWrongArgument(s, question, storageFails) ==
    IF question.service # "ls_messagebox"
    THEN Effect(s, "rejected", "Unsupported lookup service", "none", <<>>, {})
    ELSE IF NoIdentityKey(question)
    THEN Effect(s, "rejected", "identityKey query missing", "none", <<>>, {})
    ELSE IF storageFails
    THEN Effect(s, "rejected", "StoreError", "none", <<"findHostsForIdentity">>, {})
    ELSE Effect(s, "resolved", "none", "none", <<"findHostsForIdentity">>,
                findHostsForIdentity(s, question.service))

\* lookup without the check of query.identityKey.
LookupUnchecked(s, question, storageFails) ==
    IF question.service # "ls_messagebox"
    THEN Effect(s, "rejected", "Unsupported lookup service", "none", <<>>, {})
    ELSE IF storageFails
    THEN Effect(s, "rejected", "StoreError", "none", <<"findHostsForIdentity">>, {})
    ELSE Effect(s, "resolved", "none", "none", <<"findHostsForIdentity">>,
                findHostsForIdentity(s, question.identityKey))

\* lookup answering with an empty list when the storage read fails.
LookupSwallowsStoreError(s, question, storageFails) ==
    IF question.service # "ls_messagebox"
    THEN Effect(s, "rejected", "Unsupported lookup service", "none", <<>>, {})
    ELSE IF NoIdentityKey(question)
    THEN Effect(s, "rejected", "identityKey query missing", "none", <<>>, {})
    ELSE IF storageFails
    THEN Effect(s, "resolved", "none", "StoreError", <<"findHostsForIdentity">>, {})
    ELSE Effect(s, "resolved", "none", "none", <<"findHostsForIdentity">>,
                findHostsForIdentity(s, question.identityKey))

\* lookup checking the query before the service.
LookupChecksQueryFirst(s, question, storageFails) ==
    IF NoIdentityKey(question)
    THEN Effect(s, "rejected", "identityKey query missing", "none", <<>>, {})
    ELSE IF question.service # "ls_messagebox"
    THEN Effect(s, "rejected", "Unsupported lookup service", "none", <<>>, {})
    ELSE IF storageFails
    THEN Effect(s, "rejected", "StoreError", "none", <<"findHostsForIdentity">>, {})
    ELSE Effect(s, "resolved", "none", "none", <<"findHostsForIdentity">>,
                findHostsForIdentity(s, question.identityKey))

\* lookup consuming the records it answers with.
LookupConsumes(s, question, storageFails) ==
    IF question.service # "ls_messagebox"
    THEN Effect(s, "rejected", "Unsupported lookup service", "none", <<>>, {})
    ELSE IF NoIdentityKey(question)
    THEN Effect(s, "rejected", "identityKey query missing", "none", <<>>, {})
    ELSE IF storageFails
    THEN Effect(s, "rejected", "StoreError", "none", <<"findHostsForIdentity">>, {})
    ELSE Effect([r \in {x \in DOMAIN s : s[x].identityKey # question.identityKey}
                    |-> s[r]],
                "resolved", "none", "none", <<"findHostsForIdentity">>,
                findHostsForIdentity(s, question.identityKey))

\* lookup, lines 123-135.
LookupEffect(s, question, storageFails) ==
    IF question.service # "ls_messagebox"
    THEN Effect(s, "rejected", "Unsupported lookup service", "none", <<>>, {})
    ELSE IF NoIdentityKey(question)
    THEN Effect(s, "rejected", "identityKey query missing", "none", <<>>, {})
    ELSE IF storageFails
    THEN Effect(s, "rejected", "StoreError", "none", <<"findHostsForIdentity">>, {})
    ELSE Effect(s, "resolved", "none", "none", <<"findHostsForIdentity">>,
                findHostsForIdentity(s, question.identityKey))

(***************************************************************************)
(* History of the last call.                                               *)
(***************************************************************************)
NoQuestion == Question("", FALSE, FALSE, "")

Call(op, txid, outputIndex, script, topic, question) ==
    [op |-> op, txid |-> txid, outputIndex |-> outputIndex, script |-> script,
     topic |-> topic, question |-> question]

NoCall == Call("none", "", 0, Undecodable, "", NoQuestion)

Record(call, e, storageFails) ==
    [call |-> call,
     storageFails |-> storageFails /\ e.calls # <<>>,
     outcome |-> e.outcome, error |-> e.error, caught |-> e.caught,
     calls |-> e.calls, result |-> e.result,
     redelivery |-> (call = last.call)]

Init ==
    /\ store = [r \in {} |-> [identityKey |-> "", host |-> ""]]
    /\ before = store
    /\ liveOutputs = {}
    /\ removed = {}
    /\ inflight = {}
    /\ batch = {}
    /\ base = store
    /\ lost = {}
    /\ redelivered = {}
    /\ last = [call |-> NoCall, storageFails |-> FALSE, outcome |-> "resolved",
               error |-> "none", caught |-> "none", calls |-> <<>>, result |-> {},
               redelivery |-> FALSE]

outputAdded(txid, outputIndex, outputScript, topic, storageFails) ==
    LET e == OutputAddedEffect(store, txid, outputIndex, outputScript, topic,
                               storageFails)
    IN /\ storageFails => e.calls # <<>>
       /\ store' = e.store
       /\ before' = store
       /\ last' = Record(Call("outputAdded", txid, outputIndex, outputScript, topic,
                              NoQuestion), e, storageFails)

outputSpent(txid, outputIndex, topic, storageFails) ==
    LET e == OutputSpentEffect(store, txid, outputIndex, topic, storageFails)
    IN /\ storageFails => e.calls # <<>>
       /\ store' = e.store
       /\ before' = store
       /\ last' = Record(Call("outputSpent", txid, outputIndex, Undecodable, topic,
                              NoQuestion), e, storageFails)

outputDeleted(txid, outputIndex, topic, storageFails) ==
    LET e == OutputDeletedEffect(store, txid, outputIndex, topic, storageFails)
    IN /\ storageFails => e.calls # <<>>
       /\ store' = e.store
       /\ before' = store
       /\ last' = Record(Call("outputDeleted", txid, outputIndex, Undecodable, topic,
                              NoQuestion), e, storageFails)

lookup(question, storageFails) ==
    LET e == LookupEffect(store, question, storageFails)
    IN /\ storageFails => e.calls # <<>>
       /\ store' = e.store
       /\ before' = store
       /\ last' = Record(Call("lookup", "", 0, Undecodable, "", question), e,
                         storageFails)

\* The host runtime delivers an event of one of `topics` for some output.  The
\* storage can only fail in a call that reaches it.
\* The scripts delivered on a topic: the script is not looked at when the
\* topic is not the recognized one.
ScriptsOn(topic) ==
    IF topic = "tm_messagebox"
    THEN Scripts
    ELSE {SignedAdvertisement(Key1Bytes, HostABytes), Undecodable}

OutputAdded(topics) ==
    \E ref \in Refs, topic \in topics, storageFails \in BOOLEAN :
       \E outputScript \in ScriptsOn(topic) :
          outputAdded(ref[1], ref[2], outputScript, topic, storageFails)

OutputSpent(topics) ==
    \E ref \in Refs, topic \in topics, storageFails \in BOOLEAN :
       outputSpent(ref[1], ref[2], topic, storageFails)

OutputDeleted(topics) ==
    \E ref \in Refs, topic \in topics, storageFails \in BOOLEAN :
       outputDeleted(ref[1], ref[2], topic, storageFails)

Lookup ==
    \E question \in Questions, storageFails \in BOOLEAN :
       lookup(question, storageFails)

Next ==
    \/ OutputAdded(Topics) /\ UNCHANGED <<liveOutputs, removed, async>>
    \/ OutputSpent(Topics) /\ UNCHANGED <<liveOutputs, removed, async>>
    \/ OutputDeleted(Topics) /\ UNCHANGED <<liveOutputs, removed, async>>
    \/ Lookup /\ UNCHANGED <<liveOutputs, removed, async>>

Spec == Init /\ [][Next]_vars

(***************************************************************************)
(* The output events of the recognized topic, with the history of the      *)
(* overlay's outputs: the outputs the decode accepts as advertisements     *)
(* whose outputAdded has completed and for which no outputSpent or         *)
(* outputDeleted has completed since.                                      *)
(***************************************************************************)
\* The decode of lines 61-67 succeeds: a PushDrop script with at least the
\* identityKey and host fields.
ValidatorAccepts(script) == script.decodable /\ Len(script.fields) >= 2

LiveAfter(live, rec) ==
    LET ref == <<rec.call.txid, rec.call.outputIndex>>
        done == rec.call.topic = "tm_messagebox" /\ rec.outcome = "resolved"
    IN IF done /\ rec.call.op = "outputAdded" /\ ValidatorAccepts(rec.call.script)
       THEN live \cup {ref}
       ELSE IF done /\ rec.call.op \in {"outputSpent", "outputDeleted"}
       THEN live \ {ref}
       ELSE live

NextLive ==
    \/ /\ OutputAdded({"tm_messagebox"})
       /\ liveOutputs' = LiveAfter(liveOutputs, last')
       /\ UNCHANGED <<removed, async>>
    \/ /\ OutputSpent({"tm_messagebox"})
       /\ liveOutputs' = LiveAfter(liveOutputs, last')
       /\ UNCHANGED <<removed, async>>
    \/ /\ OutputDeleted({"tm_messagebox"})
       /\ liveOutputs' = LiveAfter(liveOutputs, last')
       /\ UNCHANGED <<removed, async>>

SpecLive == Init /\ [][NextLive]_vars

(***************************************************************************)
(* The output events of the recognized topic, with the history of the      *)
(* removals: the output references that were indexed when an outputSpent   *)
(* or outputDeleted for them completed.                                    *)
(***************************************************************************)
RemovedAfter(rem, s, rec) ==
    LET ref == <<rec.call.txid, rec.call.outputIndex>>
    IN IF /\ rec.call.op \in {"outputSpent", "outputDeleted"}
          /\ rec.call.topic = "tm_messagebox"
          /\ rec.outcome = "resolved"
          /\ ref \in DOMAIN s
       THEN rem \cup {ref}
       ELSE rem

NextLifecycle ==
    \/ /\ OutputAdded({"tm_messagebox"})
       /\ removed' = RemovedAfter(removed, store, last')
       /\ UNCHANGED <<liveOutputs, async>>
    \/ /\ OutputSpent({"tm_messagebox"})
       /\ removed' = RemovedAfter(removed, store, last')
       /\ UNCHANGED <<liveOutputs, async>>
    \/ /\ OutputDeleted({"tm_messagebox"})
       /\ removed' = RemovedAfter(removed, store, last')
       /\ UNCHANGED <<liveOutputs, async>>

SpecLifecycle == Init /\ [][NextLifecycle]_vars

(***************************************************************************)
(* Concurrent handler calls.  A handler runs without interruption up to    *)
(* its await of the storage call (lines 70-75, 95, 112) and is resumed     *)
(* when the storage has carried the call out; the storage carries each     *)
(* call out atomically, in any order.  Calls in progress at the same time  *)
(* are for different output references.                                    *)
(***************************************************************************)
\* The outputs of one transaction.
AsyncRefs == {<<"tx1", i>> : i \in 0..MaxOutputIndex}

AsyncScripts ==
    {SignedAdvertisement(Key1Bytes, HostABytes),
     SignedAdvertisement(Key2Bytes, HostABytes),
     Undecodable}

AsyncCall(op, txid, outputIndex, script, storageFails) ==
    [op |-> op, txid |-> txid, outputIndex |-> outputIndex, script |-> script,
     storageFails |-> storageFails]

AsyncCalls ==
    {AsyncCall("outputAdded", ref[1], ref[2], script, storageFails) :
        ref \in AsyncRefs, script \in AsyncScripts, storageFails \in BOOLEAN}
    \cup {AsyncCall(op, ref[1], ref[2], Undecodable, storageFails) :
             op \in {"outputSpent", "outputDeleted"}, ref \in AsyncRefs,
             storageFails \in BOOLEAN}

HandlerEffect(s, call) ==
    IF call.op = "outputAdded"
    THEN OutputAddedEffect(s, call.txid, call.outputIndex, call.script,
                           "tm_messagebox", call.storageFails)
    ELSE IF call.op = "outputSpent"
    THEN OutputSpentEffect(s, call.txid, call.outputIndex, "tm_messagebox",
                           call.storageFails)
    ELSE OutputDeletedEffect(s, call.txid, call.outputIndex, "tm_messagebox",
                             call.storageFails)

\* The handler's steps before its await.
BeforeAwait(s, call) ==
    IF call.op = "outputAdded"
    THEN OutputAddedBeforeAwait(s, call.txid, call.outputIndex, call.script,
                                "tm_messagebox")
    ELSE s

Quiescent == inflight = {} /\ lost = {}

RefOf(call) == <<call.txid, call.outputIndex>>

\* The host runtime calls a handler; the handler runs up to its await, or to
\* its end when it awaits nothing (decode error).
Invoke(call) ==
    LET current == IF Quiescent THEN {} ELSE batch
        suspended == HandlerEffect(store, call).calls # <<>>
    IN /\ \A b \in current : RefOf(b.call) # RefOf(call)
       /\ call.storageFails => suspended
       /\ store' = BeforeAwait(store, call)
       /\ inflight' = IF suspended THEN inflight \cup {call} ELSE inflight
       /\ batch' = current \cup {[call |-> call, overlap |-> inflight # {}]}
       /\ base' = IF Quiescent THEN store ELSE base
       /\ redelivered' = IF Quiescent THEN {} ELSE redelivered
       /\ UNCHANGED <<before, last, liveOutputs, removed, lost>>

\* The storage carries out the call of a suspended handler, which resumes.
Complete(call) ==
    /\ call \in inflight
    /\ store' = HandlerEffect(store, call).store
    /\ inflight' = inflight \ {call}
    /\ UNCHANGED <<before, last, liveOutputs, removed, batch, base, lost,
                   redelivered>>

NextAsync ==
    \/ \E call \in AsyncCalls : Invoke(call)
    \/ \E call \in inflight : Complete(call)

SpecAsync == Init /\ [][NextAsync]_vars

(***************************************************************************)
(* Crash and redelivery.  The process may stop while handlers are          *)
(* suspended between their decode and the storage carrying out their call: *)
(* those calls are never carried out, the storage keeps what it holds, and *)
(* the host runtime delivers the interrupted events again.                 *)
(***************************************************************************)
Crash ==
    /\ inflight # {}
    /\ lost' = lost \cup inflight
    /\ inflight' = {}
    /\ UNCHANGED <<store, before, last, liveOutputs, removed, batch, base,
                   redelivered>>

Redeliver(call) ==
    /\ call \in lost
    /\ store' = BeforeAwait(store, call)
    /\ lost' = lost \ {call}
    /\ inflight' = inflight \cup {call}
    /\ redelivered' = redelivered \cup {call}
    /\ UNCHANGED <<before, last, liveOutputs, removed, batch, base>>

\* The events whose handler reaches a storage call that succeeds; the removals
\* are outputSpent's, outputDeleted running the same steps.
CrashCalls ==
    {call \in AsyncCalls :
        /\ ~call.storageFails
        /\ call.op # "outputDeleted"
        /\ call.op = "outputAdded" => call.script.decodable}

NextCrash ==
    \/ \E call \in CrashCalls : Invoke(call)
    \/ \E call \in inflight : Complete(call)
    \/ Crash
    \/ \E call \in lost : Redeliver(call)

SpecCrash == Init /\ [][NextCrash]_vars

\* The calls of the batch, and their sequential runs in every order.
BatchCalls == {b.call : b \in batch}

Orders(calls) ==
    {order \in [1..Cardinality(calls) -> calls] :
        \A i, j \in 1..Cardinality(calls) : order[i] = order[j] => i = j}

RECURSIVE Sequentially(_, _)
Sequentially(s, order) ==
    IF order = <<>>
    THEN s
    ELSE Sequentially(HandlerEffect(s, Head(order)).store, Tail(order))

(***************************************************************************)
(* Vocabulary of the properties.                                           *)
(***************************************************************************)
LastRef == <<last.call.txid, last.call.outputIndex>>

OnTopic == last.call.topic = "tm_messagebox"

OutputEvents == {"outputAdded", "outputSpent", "outputDeleted"}

Removals == {"outputSpent", "outputDeleted"}

Advertised(s, ref, identityKey, host) ==
    ref \in DOMAIN s /\ s[ref] = [identityKey |-> identityKey, host |-> host]

Hosts == {toUTF8(HostABytes), toUTF8(HostBBytes), toUTF8(NonUtf8HostBytes)}

\* What a caller of lookup gets for identity key k when the storage answers.
LookupHosts(s, k) ==
    LookupEffect(s, Question("ls_messagebox", TRUE, TRUE, k), FALSE)

(***************************************************************************)
(* C1  Lifecycle correctness.  Once outputSpent for an output reference of *)
(* the recognized topic has completed, a lookup of any identity key k      *)
(* returns a host h only if an output reference other than the spent one   *)
(* is in the store advertising h for k; so the host the spent output       *)
(* advertised (the record outputAdded stored for it) is gone unless        *)
(* another live output advertises it.                                      *)
(***************************************************************************)
LifecycleCorrectness ==
    (last.call.op = "outputSpent" /\ OnTopic /\ last.outcome = "resolved")
    => \A k \in IdentityKeys \ {""} :
          \A h \in LookupHosts(store, k).result :
             \E other \in Refs \ {LastRef} : Advertised(store, other, k, h)

\* An output was added and stored, then spent; another live output still
\* advertises the same host for the same identity, and lookup still returns it.
LifecycleWitness ==
    /\ last.call.op = "outputSpent" /\ OnTopic /\ last.outcome = "resolved"
    /\ LastRef \in DOMAIN before
    /\ LastRef \notin DOMAIN store
    /\ \E other \in DOMAIN store : store[other] = before[LastRef]
    /\ before[LastRef].host
          \in LookupHosts(store, before[LastRef].identityKey).result

(***************************************************************************)
(* C2  Topic isolation.  An outputAdded, outputSpent or outputDeleted call *)
(* whose topic is not tm_messagebox issues no storage call and leaves the  *)
(* store as it was, whatever the output reference and the script.          *)
(***************************************************************************)
TopicIsolation ==
    (last.call.op \in OutputEvents /\ ~OnTopic)
    => /\ store = before
       /\ last.calls = <<>>
       /\ last.outcome = "resolved"

\* outputDeleted of another topic for an output reference that is indexed.
TopicIsolationWitness ==
    /\ last.call.op = "outputDeleted"
    /\ last.call.topic = "tm_other"
    /\ LastRef \in DOMAIN store

(***************************************************************************)
(* C3  Multi-host lookup.  For every identity key k a caller can ask for,  *)
(* lookup returns exactly the hosts of the stored (live) output references *)
(* whose identityKey is k: every such host, and no host of another         *)
(* identity.  It resolves whenever the storage answers.                    *)
(***************************************************************************)
HostsOfLive(s, k) ==
    {h \in Hosts : \E ref \in Refs : Advertised(s, ref, k, h)}

MultiHostLookup ==
    /\ \A k \in IdentityKeys \ {""} :
          /\ LookupHosts(store, k).outcome = "resolved"
          /\ LookupHosts(store, k).result = HostsOfLive(store, k)
    /\ (last.call.op = "lookup" /\ last.outcome = "resolved")
       => last.result = HostsOfLive(store, last.call.question.identityKey)
    /\ (/\ last.call.op = "lookup"
        /\ last.call.question.service = "ls_messagebox"
        /\ ~NoIdentityKey(last.call.question)
        /\ ~last.storageFails)
       => last.outcome = "resolved"

\* The scenario of the specification with (tx1,0) -> a and (tx2,0) -> b for one
\* identity, a record of another identity beside them, and lookup returning {a, b}.
MultiHostWitness ==
    /\ Advertised(store, <<"tx1", 0>>, toHex(Key1Bytes), "a")
    /\ Advertised(store, <<"tx2", 0>>, toHex(Key1Bytes), "b")
    /\ Advertised(store, <<"tx1", 1>>, toHex(Key2Bytes), "a")
    /\ last.call.op = "lookup"
    /\ last.call.question.identityKey = toHex(Key1Bytes)
    /\ last.outcome = "resolved"
    /\ last.result = {"a", "b"}

(***************************************************************************)
(* C4  Duplicate delivery.  When outputAdded is delivered again with the   *)
(* same txid, outputIndex, script and topic right after its first          *)
(* delivery, the store after the two deliveries is a store one delivery    *)
(* produces: if the first delivery lost its record to a storage failure it *)
(* changed nothing (the second is then a single delivery), and otherwise   *)
(* the second delivery changes nothing.                                    *)
(***************************************************************************)
DuplicateDeliveryIdempotent ==
    [][(last'.call.op = "outputAdded" /\ last'.call = last.call)
       => IF last.caught = "StoreError"
          THEN store = before
          ELSE store' = store]_vars

\* A stored advertisement whose outputAdded was just delivered a second time.
DuplicateDeliveryWitness ==
    /\ last.call.op = "outputAdded" /\ OnTopic
    /\ last.redelivery
    /\ last.calls = <<"storeRecord">> /\ ~last.storageFails
    /\ LastRef \in DOMAIN store
    /\ store = before

(***************************************************************************)
(* C5  Removing what is not indexed.  outputSpent or outputDeleted on the  *)
(* recognized topic for an output reference that is not in the store       *)
(* leaves the store unchanged and, unless the storage itself fails,        *)
(* resolves without error.                                                 *)
(***************************************************************************)
RemovalOfUnindexedIsNoOp ==
    (last.call.op \in Removals /\ OnTopic /\ LastRef \notin DOMAIN before)
    => /\ store = before
       /\ ~last.storageFails => (last.outcome = "resolved" /\ last.error = "none")

\* outputSpent resolved for a reference that was never indexed, beside a record
\* that stays.
RemovalOfUnindexedWitness ==
    /\ last.call.op = "outputSpent" /\ OnTopic
    /\ LastRef \notin DOMAIN before
    /\ last.calls = <<"deleteRecord">>
    /\ last.outcome = "resolved"
    /\ store # <<>>

(***************************************************************************)
(* C6  Decode robustness.  For every malformed locking script passed to    *)
(* outputAdded on the recognized topic (not a PushDrop script, a field     *)
(* count that is neither the documented five nor the reduced two, host     *)
(* bytes that are not UTF-8), the call resolves, the outcome is a decode   *)
(* error, and the store is left unchanged.                                 *)
(***************************************************************************)
IsUtf8(bytes) == \A i \in 1..Len(bytes) : bytes[i] < 128

Malformed(script) ==
    \/ ~script.decodable
    \/ Len(script.fields) \notin {2, 5}
    \/ ~IsUtf8(script.fields[2])

DecodeRobustness ==
    (last.call.op = "outputAdded" /\ OnTopic /\ Malformed(last.call.script))
    => /\ last.outcome = "resolved"
       /\ last.caught = "DecodeError"
       /\ store = before

(***************************************************************************)
(* C7  Query validation.  A lookup whose question carries no identity key  *)
(* (no query, a query without identityKey, an empty identityKey) is        *)
(* rejected with an error, resolves with no host list, and issues no       *)
(* storage call.                                                           *)
(***************************************************************************)
QueryValidation ==
    (last.call.op = "lookup" /\ NoIdentityKey(last.call.question))
    => /\ last.outcome = "rejected"
       /\ last.error \in {"identityKey query missing", "Unsupported lookup service"}
       /\ last.calls = <<>>
       /\ store = before

\* lookup on ls_messagebox with an empty identityKey, rejected, over a store
\* that holds records.
QueryValidationWitness ==
    /\ last.call.op = "lookup"
    /\ last.call.question = Question("ls_messagebox", TRUE, TRUE, "")
    /\ last.error = "identityKey query missing"
    /\ store # <<>>

(***************************************************************************)
(* C8  Store failures on the write path propagate.  Whenever the storage   *)
(* call of outputAdded, outputSpent or outputDeleted fails, the handler's  *)
(* promise rejects with that error towards the host runtime.               *)
(***************************************************************************)
StoreFailuresPropagate ==
    (last.call.op \in OutputEvents /\ last.storageFails)
    => (last.outcome = "rejected" /\ last.error = "StoreError")

(***************************************************************************)
(* C9  No unvalidated advertisement is stored.  Whenever outputAdded has   *)
(* stored a record, the output it stored it for carries a signature that   *)
(* verifies against its identityKey and its (host, timestamp, nonce); as   *)
(* records enter the store through outputAdded only, every stored record   *)
(* then comes from such an output.                                         *)
(***************************************************************************)
NoUnvalidatedAdvertisementStored ==
    (/\ last.call.op = "outputAdded"
     /\ last.calls = <<"storeRecord">>
     /\ ~last.storageFails)
    => ValidAdvertisement(last.call.script)

(***************************************************************************)
(* C10  The store reflects the live outputs.  After any sequence of        *)
(* completed output events of the recognized topic, the output references  *)
(* in the store are exactly the advertisement outputs (those the decode    *)
(* accepts) that were added and not spent or deleted since.                *)
(***************************************************************************)
StoreReflectsLiveOutputs == DOMAIN store = liveOutputs

(***************************************************************************)
(* C12  No misleading success on the read path.  Whenever the storage      *)
(* fails during findHostsForIdentity, lookup rejects with that error: it   *)
(* never resolves, and so never answers with an (empty) host list.         *)
(***************************************************************************)
ReadFailureIsAnError ==
    (last.call.op = "lookup" /\ last.storageFails)
    => /\ last.calls = <<"findHostsForIdentity">>
       /\ last.outcome = "rejected"
       /\ last.error = "StoreError"
       /\ last.caught = "none"

\* A lookup of an identity with live records, rejected by a storage failure.
ReadFailureWitness ==
    /\ last.call.op = "lookup"
    /\ last.storageFails
    /\ last.outcome = "rejected"
    /\ HostsOfLive(store, last.call.question.identityKey) # {}

(***************************************************************************)
(* C13  Spent and deleted are equivalent.  For the current store and every *)
(* output reference, topic and storage outcome, outputSpent and            *)
(* outputDeleted leave the same store and settle the same way; and each    *)
(* call made of one did what the other does on the store it found.         *)
(***************************************************************************)
SpentEqualsDeleted ==
    /\ \A ref \in Refs, topic \in Topics, storageFails \in BOOLEAN :
          OutputSpentEffect(store, ref[1], ref[2], topic, storageFails)
             = OutputDeletedEffect(store, ref[1], ref[2], topic, storageFails)
    /\ last.call.op = "outputDeleted"
       => LET e == OutputSpentEffect(before, last.call.txid, last.call.outputIndex,
                                     last.call.topic, last.storageFails)
          IN store = e.store /\ last.outcome = e.outcome /\ last.error = e.error
    /\ last.call.op = "outputSpent"
       => LET e == OutputDeletedEffect(before, last.call.txid, last.call.outputIndex,
                                       last.call.topic, last.storageFails)
          IN store = e.store /\ last.outcome = e.outcome /\ last.error = e.error

\* outputDeleted removed an indexed record, as outputSpent does.
SpentEqualsDeletedWitness ==
    /\ last.call.op = "outputDeleted" /\ OnTopic
    /\ LastRef \in DOMAIN before
    /\ store = OutputSpentEffect(before, last.call.txid, last.call.outputIndex,
                                 last.call.topic, FALSE).store
    /\ store # before

(***************************************************************************)
(* C14  Invalid identity keys are rejected.  A lookup on ls_messagebox     *)
(* whose identityKey is present but is no well-formed hex public key is    *)
(* rejected with a query error instead of resolving with an empty result.  *)
(***************************************************************************)
InvalidIdentityKeyRejected ==
    (/\ last.call.op = "lookup"
     /\ last.call.question.hasQuery /\ last.call.question.hasIdentityKey
     /\ last.call.question.identityKey \in InvalidIdentityKeys)
    => (last.outcome = "rejected" /\ last.calls = <<>>)

(***************************************************************************)
(* C15  Unsupported query type.  A lookup whose service is not             *)
(* ls_messagebox is rejected as unsupported, whatever its query (absent,   *)
(* without identity key, with a valid one): the query is not looked at     *)
(* (its own error is never the one reported) and the storage is not read.  *)
(***************************************************************************)
UnsupportedServiceRejected ==
    (last.call.op = "lookup" /\ last.call.question.service # "ls_messagebox")
    => /\ last.outcome = "rejected"
       /\ last.error = "Unsupported lookup service"
       /\ last.calls = <<>>
       /\ store = before

\* ls_other asked for an identity that has live records.
UnsupportedServiceWitness ==
    /\ last.call.op = "lookup"
    /\ last.call.question = Question("ls_other", TRUE, TRUE, toHex(Key1Bytes))
    /\ HostsOfLive(store, toHex(Key1Bytes)) # {}
    /\ last.error = "Unsupported lookup service"

(***************************************************************************)
(* C19  Deletion frame.  outputSpent or outputDeleted for an output        *)
(* reference of the recognized topic leaves every other output reference   *)
(* as it was: indexed with the same record, or not indexed.                *)
(***************************************************************************)
DeletionFrame ==
    (last.call.op \in Removals /\ OnTopic)
    => \A ref \in Refs \ {LastRef} :
          /\ ref \in DOMAIN store <=> ref \in DOMAIN before
          /\ ref \in DOMAIN before => store[ref] = before[ref]

\* (tx1,0) is removed while (tx1,1), the same transaction's other output with
\* the same identity key and host, stays.
DeletionFrameWitness ==
    /\ last.call.op \in Removals /\ OnTopic
    /\ LastRef = <<"tx1", 0>>
    /\ LastRef \in DOMAIN before /\ LastRef \notin DOMAIN store
    /\ <<"tx1", 1>> \in DOMAIN store
    /\ store[<<"tx1", 1>>] = before[LastRef]

(***************************************************************************)
(* C20  Lookup is read-only.  No lookup, whether it answers with hosts,    *)
(* with none, or fails, changes the store; so lookups placed anywhere in a *)
(* sequence of output events leave its final store the same.               *)
(***************************************************************************)
LookupIsReadOnly ==
    /\ last.call.op = "lookup" => store = before
    /\ \A question \in Questions, storageFails \in BOOLEAN :
          LookupEffect(store, question, storageFails).store = store

\* A lookup that answered with the hosts of live records.
LookupIsReadOnlyWitness ==
    /\ last.call.op = "lookup"
    /\ last.outcome = "resolved"
    /\ last.result # {}
    /\ store = before

(***************************************************************************)
(* C16  Malformed data never blocks later indexing.  An outputAdded whose  *)
(* script fails to decode is dropped: the call resolves and the store is   *)
(* as before.  From the state it leaves, every well-formed outputAdded on  *)
(* the recognized topic is decoded and stored, every outputSpent and       *)
(* outputDeleted removes its output, and every lookup answers from the     *)
(* store.                                                                  *)
(***************************************************************************)
FailsToDecode(script) == ~script.decodable \/ Len(script.fields) < 2

MalformedNeverBlocks ==
    (last.call.op = "outputAdded" /\ OnTopic /\ FailsToDecode(last.call.script))
    => /\ last.outcome = "resolved"
       /\ last.caught = "DecodeError"
       /\ last.calls = <<>>
       /\ store = before
       /\ \A ref \in Refs :
             \A script \in {x \in Scripts : ValidAdvertisement(x)} :
                LET e == OutputAddedEffect(store, ref[1], ref[2], script,
                                           "tm_messagebox", FALSE)
                IN /\ e.outcome = "resolved" /\ e.caught = "none"
                   /\ Advertised(e.store, ref, toHex(script.fields[1]),
                                 toUTF8(script.fields[2]))
       /\ \A ref \in Refs :
             /\ OutputSpentEffect(store, ref[1], ref[2], "tm_messagebox", FALSE)
                   = Effect(deleteRecord(store, ref[1], ref[2]), "resolved",
                            "none", "none", <<"deleteRecord">>, {})
             /\ OutputDeletedEffect(store, ref[1], ref[2], "tm_messagebox", FALSE)
                   = Effect(deleteRecord(store, ref[1], ref[2]), "resolved",
                            "none", "none", <<"deleteRecord">>, {})
       /\ \A identityKey \in IdentityKeys \ {""} :
             LET e == LookupEffect(store, Question("ls_messagebox", TRUE, TRUE,
                                                   identityKey), FALSE)
             IN e.outcome = "resolved"
                /\ e.result = findHostsForIdentity(store, identityKey)

\* An undecodable script was just dropped for an output whose earlier
\* advertisement is indexed, next to other records.
MalformedNeverBlocksWitness ==
    /\ last.call.op = "outputAdded" /\ OnTopic
    /\ ~last.call.script.decodable
    /\ last.caught = "DecodeError"
    /\ LastRef \in DOMAIN store
    /\ Cardinality(DOMAIN store) >= 2

(***************************************************************************)
(* C11  Removed is terminal.  An output reference that was indexed and     *)
(* then removed by outputSpent or outputDeleted is never indexed again,    *)
(* whatever events follow, a redelivered or late outputAdded included.     *)
(***************************************************************************)
RemovedIsTerminal == removed \cap DOMAIN store = {}

(***************************************************************************)
(* C17  Independence across output references under concurrency.  When    *)
(* all the handler calls made for different output references since the    *)
(* service was last quiescent have completed, in whatever order the        *)
(* storage carried them out, the store is the one that running the same    *)
(* calls one after the other gives, in every order.                        *)
(***************************************************************************)
ConcurrentIndependence ==
    Quiescent
    => \A order \in Orders(BatchCalls) : Sequentially(base, order) = store

\* An outputAdded and an outputSpent for two outputs of one transaction were
\* in progress together; both have completed, the one's record is indexed and
\* the other's is removed.
ConcurrentIndependenceWitness ==
    /\ Quiescent
    /\ \E a, b \in batch :
          /\ RefOf(a.call) # RefOf(b.call)
          /\ a.overlap \/ b.overlap
          /\ a.call.op = "outputAdded"
          /\ RefOf(a.call) \in DOMAIN store \ DOMAIN base
          /\ b.call.op = "outputSpent"
          /\ RefOf(b.call) \in DOMAIN base \ DOMAIN store

(***************************************************************************)
(* C18  Crash-then-redeliver recovery.  While an event interrupted by a    *)
(* crash, or suspended before its storage call, has not been carried out,  *)
(* the store holds for its output what it held before the event: no        *)
(* partial record.  Once the interrupted events have been delivered again  *)
(* and completed, the store is the one a run without crash gives.          *)
(***************************************************************************)
CrashRecovery ==
    /\ \A call \in lost \cup inflight :
          /\ RefOf(call) \in DOMAIN store <=> RefOf(call) \in DOMAIN base
          /\ RefOf(call) \in DOMAIN base => store[RefOf(call)] = base[RefOf(call)]
    /\ (Quiescent /\ redelivered # {})
       => \A order \in Orders(BatchCalls) : Sequentially(base, order) = store

\* An outputAdded interrupted by a crash was delivered again and has indexed
\* its record.
CrashRecoveryWitness ==
    /\ Quiescent
    /\ \E call \in redelivered :
          /\ call.op = "outputAdded"
          /\ RefOf(call) \notin DOMAIN base
          /\ Advertised(store, RefOf(call), toHex(call.script.fields[1]),
                        toUTF8(call.script.fields[2]))

====
